---- MODULE Spec2Model ----
(***************************************************************************)
(* The DataConnector page (frontend/src/pages/DataConnector.jsx, second    *)
(* half of src/frontend/src/pages/Login.jsx): the React state of one       *)
(* component instance, the interval timers it creates, the requests it has *)
(* in flight and the ingestion backend it talks to.                        *)
(*                                                                         *)
(* One action per event handler, timer callback and promise continuation.  *)
(* A handler runs to its first await in one step (React batches its        *)
(* setState calls, renders, and runs the effects whose dependencies        *)
(* changed); the code after the await is the matching ...Response action.  *)
(***************************************************************************)
EXTENDS Integers, Sequences, FiniteSets, TLC

\* Bounds of the model.
MaxJobs == 2        \* job ids the backend can hand out
MaxFetch == 2       \* status fetches (poll + view) issued in one behaviour
MaxPolls == 4       \* the same, where a whole poll sequence is followed
MaxHandles == 2     \* setInterval calls in one behaviour
MaxInflight == 2    \* status fetches in flight at once
MaxListInflight == 2 \* list fetches in flight when Refresh is clicked
MaxDbReqs == 2      \* fetchDatabases requests in flight at once
MaxDeletes == 1     \* deleteDatabase requests in flight at once
MaxColumnSaves == 2 \* updateColumn requests in flight at once
MaxTables == 2      \* tables that can be selected
MaxTableFetch == 3  \* fetchTable requests issued in one behaviour
MaxList == 2        \* length of a job list in a list response

\* null, for the states that hold an id or a timer handle.
NoJob == 0
NoHandle == 0

Jobs == 1..MaxJobs
ConnStrings == {"", "pg"}
Tabs == {"connection", "settings", "results", "history"}
Modes == {"sync", "async"}
BackendStatuses == {"queued", "running", "completed", "failed", "weird"}

NullStatus == [job_id |-> NoJob, status |-> "null"]
NullResult == [success |-> FALSE, message |-> "null", job_id |-> NoJob]

\* The session store holds no token (""), the token of the signed-in session,
\* or a token the backend no longer accepts.
SignedIn == "t1"
Tokens == {"", SignedIn, "t0"}

\* Mutant of getAuthHeaders: the token is read once, when the module loads.
getAuthHeadersCached(tok) == [Authorization |-> "Bearer", token |-> SignedIn]

\* getAuthHeaders(): the Authorization header built from the token read from
\* localStorage at the call; no such header when the token is absent.
getAuthHeaders(tok) ==
    IF tok # ""
    THEN [Authorization |-> "Bearer", token |-> tok]
    ELSE [Authorization |-> "absent", token |-> ""]

\* The backend accepts a request iff it carries the bearer token of the
\* live session; any other request is rejected (401).
Authorized(auth) == auth = [Authorization |-> "Bearer", token |-> SignedIn]

\* Every call of an api function is a request of its own: a request equal to
\* one already in flight gets the next free copy number.
Fresh(reqs, req) ==
    LET k == CHOOSE i \in 1..(Cardinality(reqs) + 1) :
                /\ [req EXCEPT !.copy = i] \notin reqs
                /\ \A m \in 1..(i - 1) : [req EXCEPT !.copy = m] \in reqs
    IN [req EXCEPT !.copy = k]

Send(reqs, req) == reqs \cup {Fresh(reqs, req)}

\* No connection string has passed a test yet.
NotVerified == "none"

\* No list response has been handed to loadRecentJobs yet.
NotDelivered == [ok |-> FALSE, data |-> [hasJobs |-> FALSE, jobs |-> <<>>],
                 prev |-> <<>>]

\* Layout, TableDetail and handleResponse before anything has happened.
NewLayout == [mounted |-> FALSE, loading |-> TRUE, databases |-> "empty"]
NewTableDetail == [tableId |-> 0, table |-> 0, loading |-> FALSE,
                   error |-> FALSE, deleting |-> FALSE,
                   isEditingDescription |-> FALSE, saving |-> FALSE]
\* The page holding TableDetail has not been rendered yet.
NotRendered == "none"
\* Requests of Layout in flight: those of the mounted instance (live) and
\* those of instances that have unmounted since (stale).
NoRequests == [live |-> 0, stale |-> 0]
Absent == "<absent>"
NoBody == [json |-> "none", detail |-> Absent, message |-> Absent]
NoResponse == [status |-> 0, body |-> NoBody]
NotHandled == [outcome |-> "not called", value |-> NoBody, message |-> Absent]

\* Settings and Connectors after construction: config.connectionString,
\* loading, status (null, or the kind of message it holds) and testResult
\* (null, or the details of a successful test); Connectors shows its form
\* while the PostgreSQL card is selected.
NewStarter == [connectionString |-> "", loading |-> FALSE, status |-> "null",
               testResult |-> "null", selected |-> FALSE]

VARIABLES
    \* React state of DataConnector
    mounted, formData, loading, testResult, ingestionResult, activeTab,
    jobId, jobStatus, pollingInterval, recentJobs, executionMode,
    \* browser timers and the closure of the last poll-effect run
    intervals, effectInterval, nextHandle,
    \* requests in flight
    statusReqs, listReqs, startReqs, testReqs, fetches,
    \* the ingestion backend
    backend,
    \* history of the run, read only by the properties
    watchLog,
    \* React state of the Settings and Connectors pages, their start
    \* requests and their test requests in flight
    settings, connectors, triggerReqs, connTestReqs,
    \* the session store: localStorage 'token' ("" when absent)
    token,
    \* the connection string of the last successful test (history)
    verified,
    \* the Layout component, the global window.refreshDatabases, and the
    \* fetchDatabases and deleteDatabase requests in flight
    layout, refreshDatabases, dbReqs, dbDeletes,
    \* which TableDetail the page renders, the component with its tableId
    \* prop, and its fetchTable requests in flight and issued so far
    tableDetailVersion, tableDetail, tableReqs, tableFetches,
    \* the deleteTable and updateTable requests of TableDetail and the
    \* updateColumn requests of its ColumnEditor rows in flight
    tableDeleteReqs, columnReqs, descriptionReqs,
    \* a fetch response handed to handleResponse, and what handleResponse did
    response, handled,
    \* the list response handed to loadRecentJobs last, with the list it
    \* found (history)
    delivered

vars == <<mounted, formData, loading, testResult, ingestionResult, activeTab,
          jobId, jobStatus, pollingInterval, recentJobs, executionMode,
          intervals, effectInterval, nextHandle,
          statusReqs, listReqs, startReqs, testReqs, fetches,
          backend, watchLog, settings, connectors, triggerReqs, connTestReqs,
          token, verified, layout, refreshDatabases, dbReqs, dbDeletes,
          tableDetailVersion, tableDetail, tableReqs, tableFetches,
          tableDeleteReqs, columnReqs, descriptionReqs,
          response, handled, delivered>>

DataConnectorVars ==
    <<mounted, formData, loading, testResult, ingestionResult, activeTab,
      jobId, jobStatus, pollingInterval, recentJobs, executionMode,
      intervals, effectInterval, nextHandle,
      statusReqs, listReqs, startReqs, testReqs, fetches, watchLog,
      verified, delivered>>

starterVars == <<settings, connectors, triggerReqs, connTestReqs>>
layoutVars == <<layout, refreshDatabases, dbReqs, dbDeletes>>
tableVars == <<tableDetailVersion, tableDetail, tableReqs, tableFetches,
               tableDeleteReqs, columnReqs, descriptionReqs>>
apiCall == <<response, handled>>

\* The variables of the pages other than DataConnector.
otherPages == <<starterVars, layoutVars, tableVars>>


----------------------------------------------------------------------------
\* Backend

Created(b) == {j \in Jobs : b[j] # "none"}

\* GET /api/ingestion/jobs: the created jobs, most recent first.
JobList(b) ==
    LET n == Cardinality(Created(b))
    IN [i \in 1..n |-> [job_id |-> n + 1 - i, status |-> b[n + 1 - i]]]

\* The body of a list response: {jobs: [...]}.
ListPayload(b) == [hasJobs |-> TRUE, jobs |-> JobList(b)]

\* A job moves queued -> running -> completed | failed; "weird" stands for a
\* status outside the four the front end knows.
BackendNext(s) ==
    CASE s = "queued"  -> {"running"}
      [] s = "running" -> {"completed", "failed", "weird"}
      [] OTHER         -> {}

----------------------------------------------------------------------------
\* Pure parts of the poll effect and of the interval callback

IsTerminal(s) == s = "completed" \/ s = "failed"

\* Mutant of ShouldPoll: the effect polls whenever a job is selected.
ShouldPollAnyMode(j, m) == j # NoJob

\* if (jobId && executionMode === 'async')
ShouldPoll(j, m) == j # NoJob /\ m = "async"

\* clearInterval(h)
ClearInterval(ivs, h) == {t \in ivs : t.id # h}

\* Mutant of Cleanup: the effect returns no cleanup, so the previous timer
\* keeps running.
CleanupSkipped(ivs, h) == ivs

\* The effect's cleanup: if (interval) clearInterval(interval)
Cleanup(ivs, h) == IF h # NoHandle THEN ClearInterval(ivs, h) ELSE ivs

\* Mutant of AfterPollOk: a terminal status does not clear the timer.
AfterPollOkKeepsTimer(ivs, h, s) == ivs

\* The interval callback after a fetch that resolved with status s.
AfterPollOk(ivs, h, s) == IF IsTerminal(s) THEN ClearInterval(ivs, h) ELSE ivs

\* Mutant of AfterPollError: a failed fetch stops the polling.
AfterPollErrorStops(ivs, h) == ClearInterval(ivs, h)

\* The interval callback after a fetch that rejected: the catch only logs.
AfterPollError(ivs, h) == ivs

\* Mutant of FinishedSignal: a terminal status does not refresh the history.
FinishedSignalDropped(reqs, s) == reqs

\* The interval callback on a terminal status: await loadRecentJobs()
FinishedSignal(reqs, s) ==
    IF IsTerminal(s)
    THEN Send(reqs, [tag |-> "poll", auth |-> getAuthHeaders(token),
                     copy |-> 0])
    ELSE reqs

\* What the interval timer created last has done so far: the fetches it has
\* issued, the index of the fetch whose response was applied last and the
\* highest index applied so far, the outcomes in the order they arrived, and
\* whether a status fetch was still in flight when it was created or when it
\* fired.
NewLog(h, j, o) == [handle |-> h, job |-> j, issued |-> 0, applied |-> 0,
                    high |-> 0, log |-> <<>>, overlap |-> o]

\* Mutant of DepsChanged: the effect depends on executionMode only.
DepsChangedModeOnly(nj, nm) == nm # executionMode

\* The dependency array [jobId, executionMode]: the effect re-runs when one of
\* the two differs from the previous render.
DepsChanged(nj, nm) == nj # jobId \/ nm # executionMode

\* useEffect(..., [jobId, executionMode]) after a render in which the two
\* dependencies are nj and nm, and pollingInterval has been set to pi by the
\* handler.  Nothing runs when neither dependency changed; otherwise the
\* previous run's cleanup, then the body.
PollEffect(nj, nm, pi) ==
    IF ~DepsChanged(nj, nm)
    THEN /\ intervals' = intervals
         /\ effectInterval' = effectInterval
         /\ nextHandle' = nextHandle
         /\ pollingInterval' = pi
         /\ watchLog' = watchLog
    ELSE IF ShouldPoll(nj, nm)
    THEN /\ nextHandle <= MaxHandles
         /\ intervals' = Cleanup(intervals, effectInterval)
                            \cup {[id |-> nextHandle, job |-> nj]}
         /\ effectInterval' = nextHandle
         /\ nextHandle' = nextHandle + 1
         /\ pollingInterval' = nextHandle
         /\ watchLog' = NewLog(nextHandle, nj, statusReqs' # {})
    ELSE /\ intervals' = Cleanup(intervals, effectInterval)
         /\ effectInterval' = NoHandle
         /\ nextHandle' = nextHandle
         /\ pollingInterval' = pi
         /\ watchLog' = watchLog

----------------------------------------------------------------------------
InitDataConnector ==
    /\ token = SignedIn
    /\ mounted = TRUE
    /\ formData = [connectionString |-> ""]
    /\ loading = FALSE
    /\ testResult = "null"
    /\ ingestionResult = NullResult
    /\ activeTab = "connection"
    /\ jobId = NoJob
    /\ jobStatus = NullStatus
    /\ pollingInterval = NoHandle
    /\ recentJobs = <<>>
    /\ executionMode = "sync"
    /\ intervals = {}
    /\ effectInterval = NoHandle
    /\ nextHandle = 1
    /\ statusReqs = {}
    \* the mount effect has called loadRecentJobs()
    /\ backend = [j \in Jobs |-> IF j = 1 THEN "completed" ELSE "none"]
    /\ listReqs = {[tag |-> "mount", auth |-> getAuthHeaders(token),
                    copy |-> 1]}
    /\ startReqs = {}
    /\ testReqs = {}
    /\ fetches = 0
    /\ watchLog = NewLog(NoHandle, NoJob, FALSE)
    /\ verified = NotVerified
    /\ delivered = NotDelivered

\* Settings, Connectors, Layout and TableDetail after construction, before
\* Layout has mounted and before a table is selected.
InitOtherPages ==
    /\ settings = NewStarter
    /\ connectors = NewStarter
    /\ triggerReqs = {}
    /\ connTestReqs = {}
    /\ layout = NewLayout
    /\ refreshDatabases = FALSE
    /\ dbReqs = NoRequests
    /\ dbDeletes = NoRequests
    /\ tableDetailVersion = NotRendered
    /\ tableDetail = NewTableDetail
    /\ tableReqs = {}
    /\ tableFetches = 0
    /\ tableDeleteReqs = {}
    /\ columnReqs = {}
    /\ descriptionReqs = {}

\* handleResponse has not been called.
InitApiIdle ==
    /\ response = NoResponse
    /\ handled = NotHandled

Init == InitDataConnector /\ InitOtherPages /\ InitApiIdle

----------------------------------------------------------------------------
\* Backend progress (the environment)

BackendAdvance(j) ==
    /\ UNCHANGED <<otherPages, apiCall, token, verified, delivered>>
    /\ \E s \in BackendNext(backend[j]) : backend' = [backend EXCEPT ![j] = s]
    /\ UNCHANGED <<fetches, mounted, formData, loading, testResult, ingestionResult,
                   activeTab, jobId, jobStatus, pollingInterval, recentJobs,
                   executionMode, intervals, effectInterval, nextHandle,
                   statusReqs, listReqs, startReqs, testReqs,
                   watchLog>>

----------------------------------------------------------------------------
\* The session store changes: sign-in or sign-out (also from another tab), or
\* the token expires at the backend and a stale one is left in the store.
setToken(t) ==
    /\ t # token
    /\ token' = t
    /\ UNCHANGED <<DataConnectorVars, backend, otherPages, apiCall>>

----------------------------------------------------------------------------
\* Tabs, form fields and the execution-mode radios

setActiveTab(tab) ==
    /\ UNCHANGED <<otherPages, apiCall, token, verified, delivered>>
    /\ mounted
    /\ tab # activeTab
    \* the Settings tab button is disabled until a test succeeded; the
    \* Configure Ingestion button of the empty results tab is not
    /\ tab = "settings" =>
          \/ testResult = "success"
          \/ /\ activeTab = "results"
             /\ ingestionResult = NullResult
             /\ jobStatus = NullStatus
    /\ activeTab' = tab
    /\ UNCHANGED <<fetches, mounted, formData, loading, testResult, ingestionResult,
                   jobId, jobStatus, pollingInterval, recentJobs,
                   executionMode, intervals, effectInterval, nextHandle,
                   statusReqs, listReqs, startReqs, testReqs,
                   backend, watchLog>>

handleChange(v) ==
    /\ UNCHANGED <<otherPages, apiCall, token, verified, delivered>>
    /\ mounted
    /\ ~loading
    /\ v # formData.connectionString
    /\ formData' = [formData EXCEPT !.connectionString = v]
    /\ UNCHANGED <<fetches, mounted, loading, testResult, ingestionResult, activeTab,
                   jobId, jobStatus, pollingInterval, recentJobs,
                   executionMode, intervals, effectInterval, nextHandle,
                   statusReqs, listReqs, startReqs, testReqs,
                   backend, watchLog>>

setExecutionMode(m) ==
    /\ UNCHANGED <<otherPages, apiCall, token, verified, delivered>>
    /\ mounted
    /\ ~loading
    /\ m # executionMode
    /\ executionMode' = m
    /\ statusReqs' = statusReqs
    /\ PollEffect(jobId, m, pollingInterval)
    /\ UNCHANGED <<fetches, mounted, formData, loading, testResult, ingestionResult,
                   activeTab, jobId, jobStatus, recentJobs,
                   listReqs, startReqs, testReqs,
                   backend>>

----------------------------------------------------------------------------
\* Test connection

\* Mutant of LoadingAfter: the flag is reset on the success path only.
LoadingAfterSuccessOnly(ok) == ~ok

\* finally { setLoading(false) } of handleTestConnection and handleIngest:
\* the value of loading after the awaited request resolved (ok) or rejected.
LoadingAfter(ok) == FALSE

handleTestConnection ==
    /\ UNCHANGED <<otherPages, apiCall, token, verified, delivered>>
    /\ mounted
    /\ ~loading
    /\ formData.connectionString # ""
    /\ loading' = TRUE
    /\ testResult' = "null"
    /\ testReqs' = testReqs \cup {[conn |-> formData.connectionString,
                                   auth |-> getAuthHeaders(token)]}
    /\ UNCHANGED <<fetches, mounted, formData, ingestionResult, activeTab,
                   jobId, jobStatus, pollingInterval, recentJobs,
                   executionMode, intervals, effectInterval, nextHandle,
                   statusReqs, listReqs, startReqs,
                   backend, watchLog>>

TestResponse(r, ok) ==
    /\ UNCHANGED <<otherPages, apiCall, token, delivered>>
    /\ verified' = IF ok THEN r.conn ELSE verified
    /\ mounted
    /\ r \in testReqs
    /\ ok => Authorized(r.auth)
    /\ testReqs' = testReqs \ {r}
    /\ testResult' = IF ok THEN "success" ELSE "failure"
    /\ loading' = LoadingAfter(ok)
    /\ UNCHANGED <<fetches, mounted, formData, ingestionResult, activeTab,
                   jobId, jobStatus, pollingInterval, recentJobs,
                   executionMode, intervals, effectInterval, nextHandle,
                   statusReqs, listReqs, startReqs,
                   backend, watchLog>>

----------------------------------------------------------------------------
\* Job history

loadRecentJobs ==
    /\ UNCHANGED <<otherPages, apiCall, token, verified, delivered>>
    /\ mounted
    /\ ~loading
    /\ Cardinality(listReqs) < MaxListInflight
    /\ listReqs' = Send(listReqs, [tag |-> "refresh",
                                   auth |-> getAuthHeaders(token),
                                   copy |-> 0])
    /\ UNCHANGED <<fetches, mounted, formData, loading, testResult, ingestionResult,
                   activeTab, jobId, jobStatus, pollingInterval, recentJobs,
                   executionMode, intervals, effectInterval, nextHandle,
                   statusReqs, startReqs, testReqs,
                   backend, watchLog>>

\* Mutant of AfterListFetch: the fetched jobs are put in front of the list
\* already held.
AfterListFetchMerged(prev, ok, data) ==
    IF ok THEN (IF data.hasJobs THEN data.jobs ELSE <<>>) \o prev ELSE prev

\* What loadRecentJobs leaves in recentJobs: setRecentJobs(data.jobs || [])
\* when the fetch resolved with body data, and the list as it was when the
\* fetch rejected.
AfterListFetch(prev, ok, data) ==
    IF ok THEN (IF data.hasJobs THEN data.jobs ELSE <<>>) ELSE prev

\* Mutant of ListResponse: a completed list fetch also drops the job snapshot.
ListResponseResets(r, ok) ==
    /\ UNCHANGED <<otherPages, apiCall, token, verified, delivered>>
    /\ mounted
    /\ r \in listReqs
    /\ ok => Authorized(r.auth)
    /\ listReqs' = listReqs \ {r}
    /\ recentJobs' = AfterListFetch(recentJobs, ok, ListPayload(backend))
    /\ jobStatus' = NullStatus
    /\ UNCHANGED <<fetches, mounted, formData, loading, testResult, ingestionResult,
                   activeTab, jobId, pollingInterval,
                   executionMode, intervals, effectInterval, nextHandle,
                   statusReqs, startReqs, testReqs,
                   backend, watchLog>>

\* loadRecentJobs after its await: setRecentJobs(data.jobs || []), or the
\* catch, which only logs.
ListResponse(r, ok) ==
    /\ UNCHANGED <<otherPages, apiCall, token, verified, delivered>>
    /\ mounted
    /\ r \in listReqs
    /\ ok => Authorized(r.auth)
    /\ listReqs' = listReqs \ {r}
    /\ recentJobs' = AfterListFetch(recentJobs, ok, ListPayload(backend))
    /\ UNCHANGED <<fetches, mounted, formData, loading, testResult, ingestionResult,
                   activeTab, jobId, jobStatus, pollingInterval,
                   executionMode, intervals, effectInterval, nextHandle,
                   statusReqs, startReqs, testReqs,
                   backend, watchLog>>

\* loadRecentJobs after its await, for any response body: a jobs array in any
\* order, or a body without a jobs field.
JobRecords == [job_id : Jobs, status : {"queued", "running", "completed"}]

ListPayloads ==
    {[hasJobs |-> FALSE, jobs |-> <<>>]} \cup
    {[hasJobs |-> TRUE, jobs |-> q] :
        q \in UNION {[1..n -> JobRecords] : n \in 0..MaxList}}

ListDelivery(r, ok, data) ==
    /\ UNCHANGED <<otherPages, apiCall, token, verified>>
    /\ mounted
    /\ r \in listReqs
    /\ ok => Authorized(r.auth)
    /\ listReqs' = listReqs \ {r}
    /\ recentJobs' = AfterListFetch(recentJobs, ok, data)
    /\ delivered' = [ok |-> ok, data |-> data, prev |-> recentJobs]
    /\ UNCHANGED <<fetches, mounted, formData, loading, testResult, ingestionResult,
                   activeTab, jobId, jobStatus, pollingInterval,
                   executionMode, intervals, effectInterval, nextHandle,
                   statusReqs, startReqs, testReqs,
                   backend, watchLog>>

RecentJobIds == {recentJobs[i].job_id : i \in 1..Len(recentJobs)}

viewJobDetails(selectedJobId) ==
    /\ UNCHANGED <<otherPages, apiCall, token, verified, delivered>>
    /\ mounted
    /\ selectedJobId \in RecentJobIds
    /\ fetches < MaxFetch
    /\ Cardinality(statusReqs) < MaxInflight
    /\ fetches' = fetches + 1
    /\ statusReqs' = Send(statusReqs,
          [src |-> "view", job |-> selectedJobId, handle |-> NoHandle,
           n |-> 0, status |-> backend[selectedJobId],
           auth |-> getAuthHeaders(token), copy |-> 0])
    /\ UNCHANGED <<mounted, formData, loading, testResult, ingestionResult,
                   activeTab, jobId, jobStatus, pollingInterval, recentJobs,
                   executionMode, intervals, effectInterval, nextHandle,
                   listReqs, startReqs, testReqs,
                   backend, watchLog>>

\* What viewJobDetails writes: the selected job, its snapshot and the tab.
Selection == [jobId |-> jobId, jobStatus |-> jobStatus, activeTab |-> activeTab]

\* Mutant of AfterViewFetch: the job is selected before the fetch is awaited,
\* so a failed fetch leaves jobId changed.
AfterViewFetchPartial(prev, ok, job, status) ==
    IF ok
    THEN [jobId |-> job, jobStatus |-> [job_id |-> job, status |-> status],
          activeTab |-> "results"]
    ELSE [prev EXCEPT !.jobId = job]

\* viewJobDetails after its await: setJobId, setJobStatus and setActiveTab in
\* the try, after the fetch resolved; the catch only logs.
AfterViewFetch(prev, ok, job, status) ==
    IF ok
    THEN [jobId |-> job, jobStatus |-> [job_id |-> job, status |-> status],
          activeTab |-> "results"]
    ELSE prev

ViewResponse(r, ok) ==
    /\ UNCHANGED <<otherPages, apiCall, token, verified, delivered>>
    /\ mounted
    /\ r \in statusReqs
    /\ ok => Authorized(r.auth)
    /\ r.src = "view"
    /\ statusReqs' = statusReqs \ {r}
    /\ LET after == AfterViewFetch(Selection, ok, r.job, r.status)
       IN /\ jobId' = after.jobId
          /\ jobStatus' = after.jobStatus
          /\ activeTab' = after.activeTab
          /\ PollEffect(after.jobId, executionMode, pollingInterval)
    /\ UNCHANGED <<fetches, mounted, formData, loading, testResult, ingestionResult,
                   recentJobs, executionMode,
                   listReqs, startReqs, testReqs, backend>>

----------------------------------------------------------------------------
\* Start ingestion

\* The watch state a start request finds: the watched job, its last known
\* status and whether a poll timer is live.  The request remembers it, with
\* whether a status fetch was in flight and how many had been issued, for the
\* properties that compare the state before and after the call.
WatchState == [jobId |-> jobId, status |-> jobStatus.status,
               polling |-> intervals # {}]

handleIngest ==
    /\ UNCHANGED <<otherPages, apiCall, token, verified, delivered>>
    /\ mounted
    /\ ~loading
    /\ statusReqs' = statusReqs
    /\ IF testResult # "success"
       THEN /\ ingestionResult' = [success |-> FALSE, message |-> "needTest",
                                   job_id |-> NoJob]
            /\ UNCHANGED <<loading, jobId, jobStatus, pollingInterval,
                           intervals, effectInterval, nextHandle, startReqs,
                           watchLog>>
       ELSE /\ loading' = TRUE
            /\ ingestionResult' = NullResult
            /\ jobStatus' = NullStatus
            /\ jobId' = NoJob
            /\ PollEffect(NoJob, executionMode, pollingInterval)
            /\ startReqs' = startReqs \cup
                  {[mode |-> executionMode,
                    conn |-> formData.connectionString,
                    auth |-> getAuthHeaders(token),
                    pre |-> WatchState,
                    quiet |-> statusReqs = {},
                    fetched |-> fetches]}
    /\ UNCHANGED <<fetches, mounted, formData, testResult, activeTab, recentJobs,
                   executionMode, listReqs, testReqs,
                   backend>>

\* POST /api/ingestion/run creates the next job and returns its id.
NewJobId(b) == Cardinality(Created(b)) + 1

IngestResponse(r, ok) ==
    /\ UNCHANGED <<otherPages, apiCall, token, verified, delivered>>
    /\ mounted
    /\ r \in startReqs
    /\ ok => Authorized(r.auth)
    /\ startReqs' = startReqs \ {r}
    /\ loading' = LoadingAfter(ok)
    /\ statusReqs' = statusReqs
    /\ IF ~ok
       THEN /\ ingestionResult' = [success |-> FALSE, message |-> "failed",
                                   job_id |-> NoJob]
            /\ UNCHANGED <<jobId, pollingInterval, intervals, effectInterval,
                           nextHandle, watchLog, backend>>
       ELSE IF r.mode = "sync"
       THEN /\ ingestionResult' = [success |-> TRUE, message |-> "done",
                                   job_id |-> NoJob]
            /\ UNCHANGED <<jobId, pollingInterval, intervals, effectInterval,
                           nextHandle, watchLog, backend>>
       ELSE /\ NewJobId(backend) \in Jobs
            /\ backend' = [backend EXCEPT ![NewJobId(backend)] = "queued"]
            /\ jobId' = NewJobId(backend)
            /\ ingestionResult' = [success |-> TRUE, message |-> "started",
                                   job_id |-> NewJobId(backend)]
            /\ PollEffect(NewJobId(backend), executionMode, pollingInterval)
    /\ UNCHANGED <<fetches, mounted, formData, testResult, activeTab, jobStatus,
                   recentJobs, executionMode, listReqs, testReqs>>

----------------------------------------------------------------------------
\* The interval callback: setInterval(async () => {...}, 3000)

\* The timer fires and the callback runs up to its await: the status request
\* for the jobId of the effect's closure goes out.  cap bounds the fetches of
\* one behaviour.
Tick(t, cap) ==
    /\ UNCHANGED <<otherPages, apiCall, token, verified, delivered>>
    /\ t \in intervals
    /\ Cardinality(statusReqs) < MaxInflight
    /\ fetches < cap
    /\ fetches' = fetches + 1
    /\ statusReqs' = Send(statusReqs,
          [src |-> "poll", job |-> t.job, handle |-> t.id,
           n |-> IF t.id = watchLog.handle THEN watchLog.issued + 1 ELSE 0,
           status |-> backend[t.job],
           auth |-> getAuthHeaders(token), copy |-> 0])
    /\ watchLog' = IF t.id = watchLog.handle
                   THEN [watchLog EXCEPT
                           !.issued = @ + 1,
                           !.overlap = @ \/ statusReqs # {}]
                   ELSE watchLog
    /\ UNCHANGED <<mounted, formData, loading, testResult, ingestionResult,
                   activeTab, jobId, jobStatus, pollingInterval, recentJobs,
                   executionMode, intervals, effectInterval, nextHandle,
                   listReqs, startReqs, testReqs, backend>>

Logged(r, outcome, applies) ==
    IF r.handle = watchLog.handle
    THEN [watchLog EXCEPT !.log = Append(@, outcome),
                          !.applied = IF applies THEN r.n ELSE @,
                          !.high = IF applies /\ r.n > @ THEN r.n ELSE @]
    ELSE watchLog

\* The callback after its await: getIngestionStatus resolved (ok) or rejected.
PollResponse(r, ok) ==
    /\ UNCHANGED <<otherPages, apiCall, token, verified, delivered>>
    /\ mounted
    /\ r \in statusReqs
    /\ ok => Authorized(r.auth)
    /\ r.src = "poll"
    /\ statusReqs' = statusReqs \ {r}
    /\ IF ok
       THEN /\ jobStatus' = [job_id |-> r.job, status |-> r.status]
            /\ intervals' = AfterPollOk(intervals, r.handle, r.status)
            /\ watchLog' = Logged(r, r.status, TRUE)
            /\ listReqs' = FinishedSignal(listReqs, r.status)
            /\ pollingInterval' = IF IsTerminal(r.status)
                                  THEN NoHandle
                                  ELSE pollingInterval
       ELSE /\ intervals' = AfterPollError(intervals, r.handle)
            /\ watchLog' = Logged(r, IF Authorized(r.auth)
                                      THEN "error"
                                      ELSE "unauthorized", FALSE)
            /\ UNCHANGED <<jobStatus, pollingInterval, listReqs>>
    /\ UNCHANGED <<fetches, mounted, formData, loading, testResult, ingestionResult,
                   activeTab, jobId, recentJobs, executionMode,
                   effectInterval, nextHandle, startReqs, testReqs, backend>>

----------------------------------------------------------------------------
\* Unmount, and the continuations that run after it (React ignores setState
\* on an unmounted component; clearInterval and loadRecentJobs still run)

Unmount ==
    /\ UNCHANGED <<otherPages, apiCall, token, verified, delivered>>
    /\ mounted
    /\ mounted' = FALSE
    /\ intervals' = Cleanup(intervals, effectInterval)
    /\ UNCHANGED <<fetches, formData, loading, testResult, ingestionResult, activeTab,
                   jobId, jobStatus, pollingInterval, recentJobs,
                   executionMode, effectInterval, nextHandle,
                   statusReqs, listReqs, startReqs, testReqs,
                   backend, watchLog>>

LatePollResponse(r, ok) ==
    /\ UNCHANGED <<otherPages, apiCall, token, verified, delivered>>
    /\ ~mounted
    /\ r \in statusReqs
    /\ ok => Authorized(r.auth)
    /\ statusReqs' = statusReqs \ {r}
    /\ IF r.src = "poll" /\ ok
       THEN /\ intervals' = AfterPollOk(intervals, r.handle, r.status)
            /\ listReqs' = FinishedSignal(listReqs, r.status)
       ELSE /\ intervals' = intervals
            /\ listReqs' = listReqs
    /\ UNCHANGED <<fetches, mounted, formData, loading, testResult, ingestionResult,
                   activeTab, jobId, jobStatus, pollingInterval, recentJobs,
                   executionMode, effectInterval, nextHandle,
                   startReqs, testReqs, backend, watchLog>>

LateResponse ==
    /\ UNCHANGED <<otherPages, apiCall, token, verified, delivered>>
    /\ ~mounted
    /\ \/ \E r \in listReqs :
            /\ listReqs' = listReqs \ {r}
            /\ UNCHANGED <<startReqs, testReqs, backend>>
       \/ \E r \in testReqs :
            /\ testReqs' = testReqs \ {r}
            /\ UNCHANGED <<listReqs, startReqs, backend>>
       \/ \E r \in startReqs, ok \in BOOLEAN :
            /\ startReqs' = startReqs \ {r}
            /\ ok => Authorized(r.auth)
            /\ (ok /\ r.mode = "async") => NewJobId(backend) \in Jobs
            /\ backend' = IF ok /\ r.mode = "async"
                          THEN [backend EXCEPT ![NewJobId(backend)] = "queued"]
                          ELSE backend
            /\ UNCHANGED <<listReqs, testReqs>>
    /\ UNCHANGED <<fetches, mounted, formData, loading, testResult, ingestionResult,
                   activeTab, jobId, jobStatus, pollingInterval, recentJobs,
                   executionMode, intervals, effectInterval, nextHandle,
                   statusReqs, watchLog>>

----------------------------------------------------------------------------
\* The Layout component (sidebar with the database tree) and the global
\* window.refreshDatabases it registers.

\* loadDatabases() of a Layout instance, up to its await: setLoading(true),
\* then fetchDatabases() goes out.  The setter of an instance that has
\* unmounted changes nothing; the request goes out all the same.
loadDatabases(live) ==
    /\ dbReqs.live + dbReqs.stale < MaxDbReqs
    /\ dbReqs' = IF live THEN [dbReqs EXCEPT !.live = @ + 1]
                         ELSE [dbReqs EXCEPT !.stale = @ + 1]
    /\ layout' = IF live THEN [layout EXCEPT !.loading = TRUE] ELSE layout

\* Layout mounts with fresh state; its effects register the global and call
\* loadDatabases().
Layout_mount ==
    /\ ~layout.mounted
    /\ dbReqs.live + dbReqs.stale < MaxDbReqs
    /\ dbReqs' = [dbReqs EXCEPT !.live = @ + 1]
    /\ layout' = [mounted |-> TRUE, loading |-> TRUE, databases |-> "empty"]
    /\ refreshDatabases' = TRUE
    /\ UNCHANGED <<DataConnectorVars, backend, starterVars, tableVars,
                   apiCall, token, dbDeletes>>

\* Layout unmounts; the effect cleanup deletes the global.  Requests in
\* flight are not cancelled: they are now those of an unmounted instance.
Layout_unmount ==
    /\ layout.mounted
    /\ layout' = [layout EXCEPT !.mounted = FALSE]
    /\ refreshDatabases' = FALSE
    /\ dbReqs' = [live |-> 0, stale |-> dbReqs.stale + dbReqs.live]
    /\ dbDeletes' = [live |-> 0, stale |-> dbDeletes.stale + dbDeletes.live]
    /\ UNCHANGED <<DataConnectorVars, backend, starterVars, tableVars,
                   apiCall, token>>

\* loadDatabases() after its await: setDatabases(data) on success, a log on
\* failure, setLoading(false) in both cases, on the instance that issued the
\* request.
DatabasesResponse(live, ok) ==
    /\ IF live
       THEN /\ dbReqs.live > 0
            /\ dbReqs' = [dbReqs EXCEPT !.live = @ - 1]
            /\ layout' = [layout EXCEPT
                            !.loading = FALSE,
                            !.databases = IF ok THEN "loaded" ELSE @]
       ELSE /\ dbReqs.stale > 0
            /\ dbReqs' = [dbReqs EXCEPT !.stale = @ - 1]
            /\ layout' = layout
    /\ UNCHANGED <<DataConnectorVars, backend, starterVars, tableVars,
                   apiCall, token, refreshDatabases, dbDeletes>>

\* handleDeleteDatabase up to its await: the delete button of a database row
\* (rendered once the list is loaded), confirmed; deleteDatabase goes out.
Layout_handleDeleteDatabase ==
    /\ layout.mounted
    /\ ~layout.loading
    /\ layout.databases = "loaded"
    /\ dbDeletes.live + dbDeletes.stale < MaxDeletes
    /\ dbDeletes' = [dbDeletes EXCEPT !.live = @ + 1]
    /\ UNCHANGED <<DataConnectorVars, backend, starterVars, tableVars,
                   apiCall, token, layout, refreshDatabases, dbReqs>>

\* handleDeleteDatabase after its await: await loadDatabases() of the same
\* instance when the delete succeeded, an alert when it failed.
DeleteDatabaseResponse(live, ok) ==
    /\ IF live
       THEN /\ dbDeletes.live > 0
            /\ dbDeletes' = [dbDeletes EXCEPT !.live = @ - 1]
       ELSE /\ dbDeletes.stale > 0
            /\ dbDeletes' = [dbDeletes EXCEPT !.stale = @ - 1]
    /\ IF ok THEN loadDatabases(live) ELSE UNCHANGED <<layout, dbReqs>>
    /\ UNCHANGED <<DataConnectorVars, backend, starterVars, tableVars,
                   apiCall, token, refreshDatabases>>

\* A start handler of Settings / Connectors after its await:
\* if (window.refreshDatabases) window.refreshDatabases(), inside the try.
CallsRefreshAnyOutcome(ok, defined) == defined
CallsRefresh(ok, defined) == ok /\ defined

\* window.refreshDatabases() when it is called: loadDatabases of the mounted
\* Layout instance.
RefreshIf(called) ==
    IF called
    THEN loadDatabases(TRUE) /\ UNCHANGED <<refreshDatabases, dbDeletes>>
    ELSE UNCHANGED layoutVars

----------------------------------------------------------------------------
\* The Settings page (features/ingestion/components/Settings.jsx) and the
\* Connectors page (features/connectors/components/Connectors.jsx): the
\* connection string field, the Test Connection button and the Start
\* Ingestion button of each.

Settings_handleChange(v) ==
    /\ v # settings.connectionString
    /\ settings' = [settings EXCEPT !.connectionString = v]
    /\ UNCHANGED <<DataConnectorVars, layoutVars, tableVars, apiCall, token,
                   backend, connectors, triggerReqs, connTestReqs>>

Settings_handleTestConnection ==
    /\ ~settings.loading
    /\ IF settings.connectionString = ""
       THEN /\ settings' = [settings EXCEPT !.status = "required"]
            /\ connTestReqs' = connTestReqs
       ELSE /\ settings' = [settings EXCEPT !.loading = TRUE,
                                            !.status = "null",
                                            !.testResult = "null"]
            /\ connTestReqs' = connTestReqs \cup
                  {[page |-> "Settings", conn |-> settings.connectionString,
                    auth |-> getAuthHeaders(token)]}
    /\ UNCHANGED <<DataConnectorVars, layoutVars, tableVars, apiCall, token,
                   backend, connectors, triggerReqs>>

Settings_TestResponse(r, ok) ==
    /\ r \in connTestReqs
    /\ ok => Authorized(r.auth)
    /\ r.page = "Settings"
    /\ connTestReqs' = connTestReqs \ {r}
    /\ settings' = [settings EXCEPT
                      !.loading = FALSE,
                      !.testResult = IF ok THEN "details" ELSE @,
                      !.status = IF ok THEN "connected" ELSE "error"]
    /\ UNCHANGED <<DataConnectorVars, layoutVars, tableVars, apiCall, token,
                   backend, connectors, triggerReqs>>

Settings_handleIngest ==
    /\ ~settings.loading
    /\ IF settings.connectionString = ""
       THEN /\ settings' = [settings EXCEPT !.status = "required"]
            /\ triggerReqs' = triggerReqs
       ELSE /\ settings' = [settings EXCEPT !.loading = TRUE,
                                            !.status = "null"]
            /\ triggerReqs' = triggerReqs \cup
                  {[page |-> "Settings", conn |-> settings.connectionString,
                    auth |-> getAuthHeaders(token)]}
    /\ UNCHANGED <<DataConnectorVars, layoutVars, tableVars, apiCall, token,
                   backend, connectors, connTestReqs>>

Settings_IngestResponse(r, ok) ==
    /\ r \in triggerReqs
    /\ ok => Authorized(r.auth)
    /\ r.page = "Settings"
    /\ triggerReqs' = triggerReqs \ {r}
    /\ settings' = [settings EXCEPT
                      !.loading = FALSE,
                      !.status = IF ok THEN "success" ELSE "error"]
    /\ ok => NewJobId(backend) \in Jobs
    /\ backend' = IF ok
                  THEN [backend EXCEPT ![NewJobId(backend)] = "queued"]
                  ELSE backend
    /\ RefreshIf(CallsRefresh(ok, refreshDatabases))
    /\ UNCHANGED <<DataConnectorVars, tableVars, apiCall, token, connectors,
                   connTestReqs>>

handleConnectorClick ==
    /\ connectors' = [connectors EXCEPT !.selected = ~@, !.status = "null",
                                        !.testResult = "null"]
    /\ UNCHANGED <<DataConnectorVars, layoutVars, tableVars, apiCall, token,
                   backend, settings, triggerReqs, connTestReqs>>

Connectors_handleChange(v) ==
    /\ connectors.selected
    /\ v # connectors.connectionString
    /\ connectors' = [connectors EXCEPT !.connectionString = v]
    /\ UNCHANGED <<DataConnectorVars, layoutVars, tableVars, apiCall, token,
                   backend, settings, triggerReqs, connTestReqs>>

Connectors_handleTestConnection ==
    /\ connectors.selected
    /\ ~connectors.loading
    /\ IF connectors.connectionString = ""
       THEN /\ connectors' = [connectors EXCEPT !.status = "required"]
            /\ connTestReqs' = connTestReqs
       ELSE /\ connectors' = [connectors EXCEPT !.loading = TRUE,
                                                !.status = "null",
                                                !.testResult = "null"]
            /\ connTestReqs' = connTestReqs \cup
                  {[page |-> "Connectors",
                    conn |-> connectors.connectionString,
                    auth |-> getAuthHeaders(token)]}
    /\ UNCHANGED <<DataConnectorVars, layoutVars, tableVars, apiCall, token,
                   backend, settings, triggerReqs>>

Connectors_TestResponse(r, ok) ==
    /\ r \in connTestReqs
    /\ ok => Authorized(r.auth)
    /\ r.page = "Connectors"
    /\ connTestReqs' = connTestReqs \ {r}
    /\ connectors' = [connectors EXCEPT
                        !.loading = FALSE,
                        !.testResult = IF ok THEN "details" ELSE @,
                        !.status = IF ok THEN "connected" ELSE "error"]
    /\ UNCHANGED <<DataConnectorVars, layoutVars, tableVars, apiCall, token,
                   backend, settings, triggerReqs>>

Connectors_handleIngest ==
    /\ connectors.selected
    /\ ~connectors.loading
    /\ IF connectors.connectionString = ""
       THEN /\ connectors' = [connectors EXCEPT !.status = "required"]
            /\ triggerReqs' = triggerReqs
       ELSE /\ connectors' = [connectors EXCEPT !.loading = TRUE,
                                                !.status = "null"]
            /\ triggerReqs' = triggerReqs \cup
                  {[page |-> "Connectors",
                    conn |-> connectors.connectionString,
                    auth |-> getAuthHeaders(token)]}
    /\ UNCHANGED <<DataConnectorVars, layoutVars, tableVars, apiCall, token,
                   backend, settings, connTestReqs>>

Connectors_IngestResponse(r, ok) ==
    /\ r \in triggerReqs
    /\ ok => Authorized(r.auth)
    /\ r.page = "Connectors"
    /\ triggerReqs' = triggerReqs \ {r}
    /\ connectors' = [connectors EXCEPT
                        !.loading = FALSE,
                        !.status = IF ok THEN "success" ELSE "error"]
    /\ ok => NewJobId(backend) \in Jobs
    /\ backend' = IF ok
                  THEN [backend EXCEPT ![NewJobId(backend)] = "queued"]
                  ELSE backend
    /\ RefreshIf(CallsRefresh(ok, refreshDatabases))
    /\ UNCHANGED <<DataConnectorVars, tableVars, apiCall, token, settings,
                   connTestReqs>>

----------------------------------------------------------------------------
\* TableDetail and the ColumnEditor rows it renders.  src holds the component
\* twice: features/catalog/components/TableDetail.jsx, with the delete button
\* and the editable description, and components/TableDetail.jsx (the one Home
\* imports; part_005 holds a copy), without them and with an error message
\* for a failed refresh.  The parent passes the selected table as the tableId
\* prop; 0 stands for null.

NoTable == 0
TableIds == 1..MaxTables
\* setTable of handleSaveDescription on a null table: an object that has a
\* description and no id.
NoId == -1
TableDetailVersions == {"features", "components"}

\* The page is rendered with one of the two components, no table selected.
TableDetail_mount(v) ==
    /\ tableDetailVersion = NotRendered
    /\ tableDetailVersion' = v
    /\ UNCHANGED <<DataConnectorVars, backend, starterVars, layoutVars,
                   apiCall, token, tableDetail, tableReqs, tableFetches,
                   tableDeleteReqs, columnReqs, descriptionReqs>>

\* fetchTable(id) goes out.
FetchTable(kind, id) ==
    /\ tableFetches < MaxTableFetch
    /\ tableFetches' = tableFetches + 1
    /\ tableReqs' = tableReqs \cup
          {[kind |-> kind, id |-> id,
            n |-> tableFetches + 1, auth |-> getAuthHeaders(token)]}

\* The parent selects another table (or none): the prop changes and the
\* effect on [tableId] runs loadTable up to its await.  The effect has no
\* cleanup: the fetches of earlier runs stay in flight.
selectTable(t) ==
    /\ tableDetailVersion # NotRendered
    /\ t # tableDetail.tableId
    /\ IF t = NoTable
       THEN /\ tableDetail' = [tableDetail EXCEPT !.tableId = t]
            /\ UNCHANGED <<tableReqs, tableFetches>>
       ELSE /\ tableDetail' = [tableDetail EXCEPT !.tableId = t,
                                                  !.loading = TRUE,
                                                  !.error = FALSE]
            /\ FetchTable("load", t)
    /\ UNCHANGED <<DataConnectorVars, backend, starterVars, layoutVars,
                   apiCall, token, tableDetailVersion, tableDeleteReqs,
                   columnReqs, descriptionReqs>>

\* loadTable and handleColumnUpdated of version v after their await, for the
\* fetch of table id: setTable(data) on success; on failure loadTable sets
\* the error and clears the table, handleColumnUpdated only logs in the
\* features version and sets the error (keeping the table) in the other;
\* loadTable's finally resets loading.  Nothing compares id with the current
\* tableId.
AfterTableFetch(v, td, kind, id, ok) ==
    IF ok THEN [td EXCEPT !.table = id,
                          !.loading = IF kind = "load" THEN FALSE ELSE @]
    ELSE IF kind = "load"
    THEN [td EXCEPT !.table = NoTable, !.error = TRUE, !.loading = FALSE]
    ELSE IF v = "features" THEN td
    ELSE [td EXCEPT !.error = TRUE]

TableResponse(r, ok) ==
    /\ r \in tableReqs
    /\ ok => Authorized(r.auth)
    /\ tableReqs' = tableReqs \ {r}
    /\ tableDetail' =
          AfterTableFetch(tableDetailVersion, tableDetail, r.kind, r.id, ok)
    /\ UNCHANGED <<DataConnectorVars, backend, starterVars, layoutVars,
                   apiCall, token, tableDetailVersion, tableFetches,
                   tableDeleteReqs, columnReqs, descriptionReqs>>

\* The table body (ColumnEditor rows, Delete button, description) is
\* rendered only with a tableId, not loading, no error and a table.
TableShown ==
    /\ tableDetail.tableId # NoTable
    /\ ~tableDetail.loading
    /\ ~tableDetail.error
    /\ tableDetail.table # NoTable

\* ColumnEditor.handleSave up to its await: updateColumn goes out.  There is
\* a row only for a table that has columns.  The onUpdated it will call is
\* the handleColumnUpdated of the render in which Save was clicked, a closure
\* over the tableId of that render.
ColumnEditor_handleSave ==
    /\ TableShown
    /\ tableDetail.table \in TableIds
    /\ Cardinality(columnReqs) < MaxColumnSaves
    /\ columnReqs' = Send(columnReqs, [id |-> tableDetail.tableId,
                                       auth |-> getAuthHeaders(token),
                                       copy |-> 0])
    /\ UNCHANGED <<DataConnectorVars, backend, starterVars, layoutVars,
                   apiCall, token, tableDetailVersion, tableDetail,
                   tableReqs, tableFetches, tableDeleteReqs,
                   descriptionReqs>>

\* handleColumnUpdated of the render with tableId id, up to its await.
handleColumnUpdated(id) ==
    /\ tableDetail' = tableDetail
    /\ FetchTable("refresh", id)

\* ColumnEditor.handleSave after its await: await onUpdated() when the update
\* succeeded, the editor's own error when it failed.
ColumnEditor_SaveResponse(r, ok) ==
    /\ r \in columnReqs
    /\ ok => Authorized(r.auth)
    /\ columnReqs' = columnReqs \ {r}
    /\ IF ok THEN handleColumnUpdated(r.id)
             ELSE UNCHANGED <<tableDetail, tableReqs, tableFetches>>
    /\ UNCHANGED <<DataConnectorVars, backend, starterVars, layoutVars,
                   apiCall, token, tableDetailVersion, tableDeleteReqs,
                   descriptionReqs>>

\* The Edit Description button of the features version.
TableDetail_editDescription ==
    /\ tableDetailVersion = "features"
    /\ TableShown
    /\ ~tableDetail.isEditingDescription
    /\ tableDetail' = [tableDetail EXCEPT !.isEditingDescription = TRUE]
    /\ UNCHANGED <<DataConnectorVars, backend, starterVars, layoutVars,
                   apiCall, token, tableDetailVersion, tableReqs,
                   tableFetches, tableDeleteReqs, columnReqs,
                   descriptionReqs>>

\* The Cancel button next to Save, disabled while saving.
TableDetail_cancelEdit ==
    /\ tableDetailVersion = "features"
    /\ TableShown
    /\ tableDetail.isEditingDescription
    /\ ~tableDetail.saving
    /\ tableDetail' = [tableDetail EXCEPT !.isEditingDescription = FALSE]
    /\ UNCHANGED <<DataConnectorVars, backend, starterVars, layoutVars,
                   apiCall, token, tableDetailVersion, tableReqs,
                   tableFetches, tableDeleteReqs, columnReqs,
                   descriptionReqs>>

\* handleSaveDescription up to its await: setSaving(true), updateTable goes
\* out for the current tableId.
TableDetail_handleSaveDescription ==
    /\ tableDetailVersion = "features"
    /\ TableShown
    /\ tableDetail.isEditingDescription
    /\ ~tableDetail.saving
    /\ tableDetail' = [tableDetail EXCEPT !.saving = TRUE]
    /\ descriptionReqs' = descriptionReqs \cup
          {[id |-> tableDetail.tableId, auth |-> getAuthHeaders(token)]}
    /\ UNCHANGED <<DataConnectorVars, backend, starterVars, layoutVars,
                   apiCall, token, tableDetailVersion, tableReqs,
                   tableFetches, tableDeleteReqs, columnReqs>>

\* setTable(prev => ({...prev, description})): the table held keeps its id,
\* a null table becomes an object without id.
WithDescription(prev) == IF prev = NoTable THEN NoId ELSE prev

\* handleSaveDescription after its await: on success the description is put
\* into whatever table is held and editing ends, on failure an alert; the
\* finally resets saving.
TableDetail_SaveDescriptionResponse(r, ok) ==
    /\ r \in descriptionReqs
    /\ ok => Authorized(r.auth)
    /\ descriptionReqs' = descriptionReqs \ {r}
    /\ tableDetail' =
          IF ok THEN [tableDetail EXCEPT
                         !.table = WithDescription(@),
                         !.isEditingDescription = FALSE,
                         !.saving = FALSE]
          ELSE [tableDetail EXCEPT !.saving = FALSE]
    /\ UNCHANGED <<DataConnectorVars, backend, starterVars, layoutVars,
                   apiCall, token, tableDetailVersion, tableReqs,
                   tableFetches, tableDeleteReqs, columnReqs>>

\* handleDelete of the features version up to its await: confirmed,
\* setDeleting(true), deleteTable goes out.
TableDetail_handleDelete ==
    /\ tableDetailVersion = "features"
    /\ TableShown
    /\ ~tableDetail.deleting
    /\ tableDetail' = [tableDetail EXCEPT !.deleting = TRUE]
    /\ tableDeleteReqs' = tableDeleteReqs \cup
          {[id |-> tableDetail.tableId, auth |-> getAuthHeaders(token)]}
    /\ UNCHANGED <<DataConnectorVars, backend, starterVars, layoutVars,
                   apiCall, token, tableDetailVersion, tableReqs,
                   tableFetches, columnReqs, descriptionReqs>>

\* handleDelete after its await: on success navigate() and, if the global is
\* defined, window.refreshDatabases(); on failure an alert and
\* setDeleting(false).
TableDetail_DeleteResponse(r, ok) ==
    /\ r \in tableDeleteReqs
    /\ ok => Authorized(r.auth)
    /\ tableDeleteReqs' = tableDeleteReqs \ {r}
    /\ tableDetail' = IF ok THEN tableDetail
                            ELSE [tableDetail EXCEPT !.deleting = FALSE]
    /\ RefreshIf(ok /\ refreshDatabases)
    /\ UNCHANGED <<DataConnectorVars, backend, starterVars, apiCall, token,
                   tableDetailVersion, tableReqs, tableFetches, columnReqs,
                   descriptionReqs>>

----------------------------------------------------------------------------
\* handleResponse (services/api.js and api/api.js, the same code)

\* A fetch response: its HTTP status and its body.  The body is not JSON, or
\* the JSON value null, or a JSON object whose detail and message fields are
\* absent, the empty string or a text.
HttpStatuses == {200, 201, 204, 400, 401, 404, 422, 500}
DetailValues == {Absent, "", "detail text"}
MessageValues == {Absent, "", "message text"}
Bodies ==
    {[json |-> "unparseable", detail |-> Absent, message |-> Absent],
     [json |-> "null", detail |-> Absent, message |-> Absent]} \cup
    {[json |-> "object", detail |-> d, message |-> m] :
        d \in DetailValues, m \in MessageValues}
Responses == [status : HttpStatuses, body : Bodies]

\* response.ok
ResponseOk(resp) == resp.status >= 200 /\ resp.status <= 299

\* JavaScript truthiness of a field: undefined and '' are falsy.
Truthy(v) == v # Absent /\ v # ""

\* What a call ends with: the value it returns, or the message of the error
\* it throws.
Returns(v) == [outcome |-> "returned", value |-> v, message |-> Absent]
Throws(msg) == [outcome |-> "threw", value |-> NoBody, message |-> msg]

\* response.json(): rejects with a SyntaxError when the body is not JSON.
\* error.detail on the value null throws a TypeError.
handleResponse(resp) ==
    IF ~ResponseOk(resp)
    THEN IF resp.body.json = "unparseable" THEN Throws("Something went wrong")
         ELSE IF resp.body.json = "null" THEN Throws("TypeError")
         ELSE IF Truthy(resp.body.detail) THEN Throws(resp.body.detail)
         ELSE IF Truthy(resp.body.message) THEN Throws(resp.body.message)
         ELSE Throws("Something went wrong")
    ELSE IF resp.body.json = "unparseable" THEN Throws("SyntaxError")
         ELSE Returns(resp.body)

\* A caller awaits handleResponse(res).
CallHandleResponse ==
    /\ handled = NotHandled
    /\ response # NoResponse
    /\ handled' = handleResponse(response)
    /\ UNCHANGED <<DataConnectorVars, backend, otherPages, token, response>>

----------------------------------------------------------------------------
Next ==
    \/ \E j \in Jobs : BackendAdvance(j)
    \/ \E tab \in Tabs : setActiveTab(tab)
    \/ \E v \in ConnStrings : handleChange(v)
    \/ \E m \in Modes : setExecutionMode(m)
    \/ handleTestConnection
    \/ \E r \in testReqs, ok \in BOOLEAN : TestResponse(r, ok)
    \/ loadRecentJobs
    \/ \E r \in listReqs, ok \in BOOLEAN : ListResponse(r, ok)
    \/ \E j \in Jobs : viewJobDetails(j)
    \/ \E r \in statusReqs, ok \in BOOLEAN : ViewResponse(r, ok)
    \/ handleIngest
    \/ \E r \in startReqs, ok \in BOOLEAN : IngestResponse(r, ok)
    \/ \E t \in intervals : Tick(t, MaxFetch)
    \/ \E r \in statusReqs, ok \in BOOLEAN : PollResponse(r, ok)
    \/ Unmount
    \/ \E r \in statusReqs, ok \in BOOLEAN : LatePollResponse(r, ok)
    \/ LateResponse
    \/ \E t \in Tokens : setToken(t)
    \/ \E r \in listReqs, ok \in BOOLEAN, data \in ListPayloads :
          ListDelivery(r, ok, data)
    \/ CallHandleResponse
    \/ \E v \in TableDetailVersions : TableDetail_mount(v)
    \/ \E t \in {NoTable} \cup TableIds : selectTable(t)
    \/ \E r \in tableReqs, ok \in BOOLEAN : TableResponse(r, ok)
    \/ ColumnEditor_handleSave
    \/ \E r \in columnReqs, ok \in BOOLEAN : ColumnEditor_SaveResponse(r, ok)
    \/ TableDetail_editDescription
    \/ TableDetail_cancelEdit
    \/ TableDetail_handleSaveDescription
    \/ \E r \in descriptionReqs, ok \in BOOLEAN :
          TableDetail_SaveDescriptionResponse(r, ok)
    \/ TableDetail_handleDelete
    \/ \E r \in tableDeleteReqs, ok \in BOOLEAN :
          TableDetail_DeleteResponse(r, ok)
    \/ Layout_mount
    \/ Layout_unmount
    \/ \E live \in BOOLEAN, ok \in BOOLEAN : DatabasesResponse(live, ok)
    \/ Layout_handleDeleteDatabase
    \/ \E live \in BOOLEAN, ok \in BOOLEAN : DeleteDatabaseResponse(live, ok)
    \/ \E v \in ConnStrings : Settings_handleChange(v)
    \/ Settings_handleTestConnection
    \/ \E r \in connTestReqs, ok \in BOOLEAN : Settings_TestResponse(r, ok)
    \/ Settings_handleIngest
    \/ \E r \in triggerReqs, ok \in BOOLEAN : Settings_IngestResponse(r, ok)
    \/ handleConnectorClick
    \/ \E v \in ConnStrings : Connectors_handleChange(v)
    \/ Connectors_handleTestConnection
    \/ \E r \in connTestReqs, ok \in BOOLEAN : Connectors_TestResponse(r, ok)
    \/ Connectors_handleIngest
    \/ \E r \in triggerReqs, ok \in BOOLEAN : Connectors_IngestResponse(r, ok)

Spec == Init /\ [][Next]_vars

\* The three pages that can start an ingestion, from their state after
\* construction: the connection forms, the test, the tabs and the start
\* handlers, without the job tracker.
NextStart ==
    \/ \E tab \in Tabs : setActiveTab(tab)
    \/ \E v \in ConnStrings : handleChange(v)
    \/ handleTestConnection
    \/ \E r \in testReqs, ok \in BOOLEAN : TestResponse(r, ok)
    \/ \E r \in listReqs, ok \in BOOLEAN : ListResponse(r, ok)
    \/ handleIngest
    \/ \E r \in startReqs, ok \in BOOLEAN : IngestResponse(r, ok)
    \/ \E v \in ConnStrings : Settings_handleChange(v)
    \/ Settings_handleTestConnection
    \/ \E r \in connTestReqs, ok \in BOOLEAN : Settings_TestResponse(r, ok)
    \/ Settings_handleIngest
    \/ \E r \in triggerReqs, ok \in BOOLEAN : Settings_IngestResponse(r, ok)
    \/ handleConnectorClick
    \/ \E v \in ConnStrings : Connectors_handleChange(v)
    \/ Connectors_handleTestConnection
    \/ \E r \in connTestReqs, ok \in BOOLEAN : Connectors_TestResponse(r, ok)
    \/ Connectors_handleIngest
    \/ \E r \in triggerReqs, ok \in BOOLEAN : Connectors_IngestResponse(r, ok)

SpecStart == Init /\ [][NextStart]_vars

\* The history tab from the state after construction: the job list, View
\* Details, the tabs and the start of an ingestion.
NextHistory ==
    \/ \E tab \in Tabs : setActiveTab(tab)
    \/ handleTestConnection
    \/ \E v \in ConnStrings : handleChange(v)
    \/ \E r \in testReqs, ok \in BOOLEAN : TestResponse(r, ok)
    \/ loadRecentJobs
    \/ \E r \in listReqs, ok \in BOOLEAN : ListResponse(r, ok)
    \/ \E j \in Jobs : viewJobDetails(j)
    \/ \E r \in statusReqs, ok \in BOOLEAN : ViewResponse(r, ok)
    \/ handleIngest
    \/ \E r \in startReqs, ok \in BOOLEAN : IngestResponse(r, ok)

SpecHistory == Init /\ [][NextHistory]_vars

\* The job tracker on its own: the page after a successful connection test,
\* without the events that only touch the connection form and the tabs.
InitTrackerPage ==
    /\ token = SignedIn
    /\ mounted = TRUE
    /\ formData = [connectionString |-> "pg"]
    /\ loading = FALSE
    /\ testResult = "success"
    /\ ingestionResult = NullResult
    /\ activeTab = "results"
    /\ jobId = NoJob
    /\ jobStatus = NullStatus
    /\ pollingInterval = NoHandle
    /\ backend = [j \in Jobs |-> IF j = 1 THEN "completed" ELSE "none"]
    /\ recentJobs = JobList(backend)
    /\ executionMode = "sync"
    /\ intervals = {}
    /\ effectInterval = NoHandle
    /\ nextHandle = 1
    /\ statusReqs = {}
    /\ listReqs = {}
    /\ startReqs = {}
    /\ testReqs = {}
    /\ fetches = 0
    /\ watchLog = NewLog(NoHandle, NoJob, FALSE)
    /\ verified = NotVerified
    /\ delivered = NotDelivered

InitTracker == InitTrackerPage /\ InitOtherPages /\ InitApiIdle

NextTracker ==
    \/ \E j \in Jobs : BackendAdvance(j)
    \/ \E m \in Modes : setExecutionMode(m)
    \/ loadRecentJobs
    \/ \E r \in listReqs, ok \in BOOLEAN : ListResponse(r, ok)
    \/ \E j \in Jobs : viewJobDetails(j)
    \/ \E r \in statusReqs, ok \in BOOLEAN : ViewResponse(r, ok)
    \/ handleIngest
    \/ \E r \in startReqs, ok \in BOOLEAN : IngestResponse(r, ok)
    \/ \E t \in intervals : Tick(t, MaxFetch)
    \/ \E r \in statusReqs, ok \in BOOLEAN : PollResponse(r, ok)
    \/ Unmount
    \/ \E r \in statusReqs, ok \in BOOLEAN : LatePollResponse(r, ok)
    \/ LateResponse

SpecTracker == InitTracker /\ [][NextTracker]_vars

\* One started job followed through its whole poll sequence: start, timer
\* ticks, responses, backend progress and mode changes, up to MaxPolls fetches.
NextPolls ==
    \/ \E j \in Jobs : BackendAdvance(j)
    \/ \E m \in Modes : setExecutionMode(m)
    \/ \E r \in listReqs, ok \in BOOLEAN : ListResponse(r, ok)
    \/ handleIngest
    \/ \E r \in startReqs, ok \in BOOLEAN : IngestResponse(r, ok)
    \/ \E t \in intervals : Tick(t, MaxPolls)
    \/ \E r \in statusReqs, ok \in BOOLEAN : PollResponse(r, ok)

SpecPolls == InitTracker /\ [][NextPolls]_vars

\* The requests of the job tracker while the session store changes: test,
\* start, view and poll, and the list fetch a finished job triggers, with
\* sign-out, sign-in and a stale token.
NextSession ==
    \/ \E t \in Tokens : setToken(t)
    \/ \E m \in Modes : setExecutionMode(m)
    \/ handleTestConnection
    \/ \E r \in testReqs, ok \in BOOLEAN : TestResponse(r, ok)
    \/ \E r \in listReqs, ok \in BOOLEAN : ListResponse(r, ok)
    \/ \E j \in Jobs : viewJobDetails(j)
    \/ \E r \in statusReqs, ok \in BOOLEAN : ViewResponse(r, ok)
    \/ handleIngest
    \/ \E r \in startReqs, ok \in BOOLEAN : IngestResponse(r, ok)
    \/ \E t \in intervals : Tick(t, MaxFetch)
    \/ \E r \in statusReqs, ok \in BOOLEAN : PollResponse(r, ok)

SpecSession == InitTracker /\ [][NextSession]_vars

\* The history list on its own: refreshes, also several at once, answered
\* with any response body, while the execution mode changes.
NextList ==
    \/ loadRecentJobs
    \/ \E r \in listReqs, ok \in BOOLEAN, data \in ListPayloads :
          ListDelivery(r, ok, data)
    \/ \E m \in Modes : setExecutionMode(m)

SpecList == InitTracker /\ [][NextList]_vars

\* The sidebar and the two pages that ask it to reload: Layout mounting and
\* unmounting, its database fetches, and the start handlers of Settings and
\* Connectors.
NextSidebar ==
    \/ Layout_mount
    \/ Layout_unmount
    \/ \E live \in BOOLEAN, ok \in BOOLEAN : DatabasesResponse(live, ok)
    \/ Layout_handleDeleteDatabase
    \/ \E live \in BOOLEAN, ok \in BOOLEAN : DeleteDatabaseResponse(live, ok)
    \/ \E v \in ConnStrings : Settings_handleChange(v)
    \/ Settings_handleTestConnection
    \/ \E r \in connTestReqs, ok \in BOOLEAN : Settings_TestResponse(r, ok)
    \/ Settings_handleIngest
    \/ \E r \in triggerReqs, ok \in BOOLEAN : Settings_IngestResponse(r, ok)
    \/ handleConnectorClick
    \/ \E v \in ConnStrings : Connectors_handleChange(v)
    \/ Connectors_handleTestConnection
    \/ \E r \in connTestReqs, ok \in BOOLEAN : Connectors_TestResponse(r, ok)
    \/ Connectors_handleIngest
    \/ \E r \in triggerReqs, ok \in BOOLEAN : Connectors_IngestResponse(r, ok)

SpecSidebar == Init /\ [][NextSidebar]_vars

\* TableDetail under a parent that changes the selection at any time, with
\* the Layout whose list a deleted table reloads.
NextTable ==
    \/ Layout_mount
    \/ Layout_unmount
    \/ \E live \in BOOLEAN, ok \in BOOLEAN : DatabasesResponse(live, ok)
    \/ \E v \in TableDetailVersions : TableDetail_mount(v)
    \/ \E t \in {NoTable} \cup TableIds : selectTable(t)
    \/ \E r \in tableReqs, ok \in BOOLEAN : TableResponse(r, ok)
    \/ ColumnEditor_handleSave
    \/ \E r \in columnReqs, ok \in BOOLEAN : ColumnEditor_SaveResponse(r, ok)
    \/ TableDetail_editDescription
    \/ TableDetail_cancelEdit
    \/ TableDetail_handleSaveDescription
    \/ \E r \in descriptionReqs, ok \in BOOLEAN :
          TableDetail_SaveDescriptionResponse(r, ok)
    \/ TableDetail_handleDelete
    \/ \E r \in tableDeleteReqs, ok \in BOOLEAN :
          TableDetail_DeleteResponse(r, ok)

SpecTable == Init /\ [][NextTable]_vars

\* handleResponse applied to every response of the bounded set.
InitHandleResponse ==
    /\ InitDataConnector
    /\ InitOtherPages
    /\ response \in Responses
    /\ handled = NotHandled

NextHandleResponse == CallHandleResponse

SpecHandleResponse == InitHandleResponse /\ [][NextHandleResponse]_vars

TypeOK ==
    /\ mounted \in BOOLEAN
    /\ jobId \in Jobs \cup {NoJob}
    /\ executionMode \in Modes
    /\ activeTab \in Tabs
    /\ \A t \in intervals : t.job \in Jobs

----------------------------------------------------------------------------
\* Properties of the job tracker

KnownStatuses == {"queued", "running", "completed", "failed"}

Last(q) == q[Len(q)]

\* The timer created last is still live.
TimerLive == \E t \in intervals : t.id = watchLog.handle

\* C1: stale-response rejection.  A status response for a job that is no
\* longer the watched one is discarded: whenever a snapshot is written to
\* jobStatus it is a snapshot of the job watched at that moment.
C1_StaleResponseDiscarded ==
    [][(jobStatus' # jobStatus /\ jobStatus' # NullStatus)
          => jobStatus'.job_id = jobId']_vars

\* C2: at most one polling interval timer is live at any instant, whatever
\* the sequence of starts, job selections, mode changes and unmount.
C2_AtMostOneHandle == Cardinality(intervals) <= 1

\* C2 witness: a second timer has been armed (the watch moved on) and exactly
\* one timer is live.
C2_Witness ==
    /\ mounted
    /\ nextHandle > 2
    /\ Cardinality(intervals) = 1

\* C3: terminal stop.  When the polls of the watched job return running,
\* running and then completed (or failed), each response arriving before the
\* next tick, exactly 3 fetches have been issued, the timer is released and
\* no 4th fetch is ever issued.
C3_TerminalStop ==
    (/\ ~watchLog.overlap
     /\ watchLog.log \in {<<"running", "running", "completed">>,
                          <<"running", "running", "failed">>})
    => /\ watchLog.issued = 3
       /\ ~TimerLive
       /\ pollingInterval = NoHandle

\* C3 witness: the sequence running, running, completed has been polled.
C3_Witness ==
    /\ ~watchLog.overlap
    /\ watchLog.log = <<"running", "running", "completed">>
    /\ watchLog.issued = 3
    /\ intervals = {}

\* C4: no two poll fetches for the same jobId are in flight at once, and the
\* responses of the watched job are applied in the order their requests were
\* issued (the response applied last is the latest-issued one applied so far).
C4_OneInFlightInOrder ==
    /\ \A r1, r2 \in statusReqs :
          (r1.src = "poll" /\ r2.src = "poll" /\ r1.job = r2.job) => r1 = r2
    /\ watchLog.applied = watchLog.high

\* C5: the poll handle (the live timer, and pollingInterval that records it)
\* is present iff a job is watched and its last known status is queued or
\* running, or no snapshot has been obtained yet.
C5_Watching ==
    /\ jobId # NoJob
    /\ jobStatus = NullStatus \/ jobStatus.status \in {"queued", "running"}

C5_PollHandleIff ==
    /\ (intervals # {}) <=> C5_Watching
    /\ (pollingInterval # NoHandle) <=> C5_Watching

\* C6: once the last known status of a job is completed or failed, no timer
\* is armed again for that job unless a new watch begins (jobId changes).
C6_NoRearmAfterTerminal ==
    [][\A t \in intervals' \ intervals :
          (jobStatus.job_id = t.job /\ IsTerminal(jobStatus.status))
             => jobId' # jobId]_vars

\* C7: a status outside queued, running, completed, failed is never shown as
\* it is (the job is surfaced as failed), and once a poll has returned one the
\* timer is released.
C7_UnknownStatusStops ==
    /\ jobStatus # NullStatus => jobStatus.status \in KnownStatuses
    /\ (\E i \in 1..Len(watchLog.log) :
           watchLog.log[i] \notin KnownStatuses \cup {"error"})
       => ~TimerLive

\* C8: immediate first fetch.  Whenever a timer is armed for a job, a status
\* fetch for that job is in flight or its status is already held: the status
\* does not wait for the first tick.
C8_ImmediateFirstFetch ==
    [][\A t \in intervals' \ intervals :
          \/ \E r \in statusReqs' : r.job = t.job
          \/ jobStatus'.job_id = t.job]_vars

\* C9: transient-failure resilience.  A failed status fetch does not stop
\* polling: while the last outcome of the current timer is a network error
\* and no outcome was terminal, the timer is live, unless the effect itself
\* has released it since (mode switch or new start: effectInterval no longer
\* holds the timer's handle).  And for the outcomes running, error, completed
\* of the job still watched, each arriving before the next tick, exactly 3
\* fetches have been issued, the snapshot shown is completed, and the timer
\* and pollingInterval are released.
C9_TransientFailure ==
    /\ (/\ watchLog.log # <<>>
        /\ Last(watchLog.log) = "error"
        /\ \A i \in 1..Len(watchLog.log) : ~IsTerminal(watchLog.log[i])
        /\ effectInterval = watchLog.handle)
       => TimerLive
    /\ (/\ ~watchLog.overlap
        /\ watchLog.log = <<"running", "error", "completed">>
        /\ jobId = watchLog.job)
       => /\ watchLog.issued = 3
          /\ jobStatus = [job_id |-> watchLog.job, status |-> "completed"]
          /\ ~TimerLive
          /\ pollingInterval = NoHandle

\* C9 witness: the timer of the watched job has polled running, a network
\* error and completed, in 3 fetches none of which overlapped, and the job is
\* shown completed with the timer released.
C9_Witness ==
    /\ jobId = watchLog.job
    /\ ~watchLog.overlap
    /\ watchLog.log = <<"running", "error", "completed">>
    /\ watchLog.issued = 3
    /\ jobStatus.status = "completed"
    /\ intervals = {}

\* C10: when the start request is rejected the watch state (watched jobId,
\* last known status, poll timer) is what it was before the call, and the
\* error is surfaced.  Stated for the calls during which no status fetch was
\* in flight or issued, so that nothing but the start itself can have changed
\* the watch state.
C10_FailedStartLeavesWatch ==
    [][\A r \in startReqs \ startReqs' :
          (/\ mounted
           /\ ingestionResult'.message = "failed"
           /\ r.quiet
           /\ r.fetched = fetches)
             => /\ ~ingestionResult'.success
                /\ WatchState' = r.pre]_vars

\* C11: View Details is a one-shot fetch.  The response of a viewJobDetails
\* fetch sets the display but arms no polling timer and records no poll
\* handle, so the viewed job is not polled afterwards.
C11_ViewNeverArmsTimer ==
    [][\A r \in statusReqs \ statusReqs' :
          r.src = "view" => /\ intervals' \subseteq intervals
                            /\ pollingInterval' = pollingInterval]_vars

\* C12: once the watch has left a job (jobId cleared or moved to another job,
\* or the component unmounted), the response of a poll still in flight for
\* that job changes neither the snapshot nor the poll-handle record and
\* triggers no history refresh.
C12_NoMutationAfterUnwatch ==
    [][\A r \in statusReqs \ statusReqs' :
          (r.src = "poll" /\ (r.job # jobId \/ ~mounted))
             => /\ jobStatus' = jobStatus
                /\ pollingInterval' = pollingInterval
                /\ listReqs' = listReqs]_vars

\* C13: only the job watched last is polled.  Every live timer belongs to the
\* current jobId, and every status fetch a timer issues targets the jobId
\* watched at that moment, never a previously watched one.
C13_OnlyCurrentWatchPolled ==
    [][/\ \A t \in intervals' : t.job = jobId'
       /\ \A r \in statusReqs' \ statusReqs :
             r.src = "poll" => r.job = jobId]_vars

\* C13 witness: the watch has moved on (a second timer was armed after the
\* first was released) and a poll issued by the second timer is in flight
\* for the watched job.
C13_Witness ==
    /\ mounted
    /\ nextHandle > 2
    /\ \E r \in statusReqs :
          r.src = "poll" /\ r.handle = 2 /\ r.job = jobId

\* C14: job-finished signal.  Whenever a poll of the timer armed last yields
\* completed or failed, a history list fetch is triggered in the same step;
\* and whenever a list fetch completes and changes the history list, the
\* list is exactly the backend's list, most recent job first.
C14_FinishedSignalRefresh ==
    [][/\ (/\ mounted
           /\ Len(watchLog'.log) > Len(watchLog.log)
           /\ IsTerminal(Last(watchLog'.log)))
          => \E q \in listReqs' \ listReqs : q.tag = "poll"
       /\ (/\ listReqs' # listReqs
           /\ listReqs' \subseteq listReqs
           /\ recentJobs' # recentJobs)
          => recentJobs' = JobList(backend)]_vars

\* C14 witness: the started job 2 was polled to a terminal status, the
\* refresh this triggered has completed and the job is first in the history
\* list with that status.
C14_Witness ==
    /\ watchLog.job = 2
    /\ watchLog.log # <<>>
    /\ IsTerminal(Last(watchLog.log))
    /\ listReqs = {}
    /\ Len(recentJobs) = 2
    /\ recentJobs[1] = [job_id |-> 2, status |-> Last(watchLog.log)]

\* C15: when an asynchronous start succeeds, the watched jobId is the id the
\* backend returned, no snapshot is held (jobStatus stays empty until the
\* first poll of the new job) and a timer polling the new job is live.
\* Stated for the starts during which no status fetch was issued, so that
\* only the start and the fetches already in flight can have acted.
C15_AsyncStartBeginsWatch ==
    [][\A r \in startReqs \ startReqs' :
          (/\ mounted
           /\ ingestionResult'.message = "started"
           /\ r.fetched = fetches)
             => /\ jobId' = ingestionResult'.job_id
                /\ jobStatus' = NullStatus
                /\ \E t \in intervals' : t.job = jobId']_vars

\* C16: while a job is watched and its last known status is not terminal,
\* its poll timer is released only when a terminal status is received or the
\* watch is given up (jobId changes, or the component unmounts).
C16_OnlyTerminalOrUnwatchStops ==
    [][\A t \in intervals \ intervals' :
          (/\ mounted
           /\ t.job = jobId
           /\ ~IsTerminal(jobStatus.status))
             => \/ jobId' # jobId
                \/ ~mounted'
                \/ /\ jobStatus'.job_id = t.job
                   /\ IsTerminal(jobStatus'.status)]_vars

\* C17: a history refresh never disturbs the job tracker.  A step that issues
\* or completes a list fetch (and is not a poll response) leaves the watched
\* jobId, the snapshot, the poll-handle record and the timers unchanged,
\* whether the fetch succeeds or fails.
C17_RefreshLeavesTracker ==
    [][(listReqs' # listReqs /\ statusReqs' = statusReqs)
          => UNCHANGED <<jobId, jobStatus, pollingInterval, intervals,
                         effectInterval>>]_vars

\* C17 witness: while job 2 is watched, shown running and polled, a refresh
\* has completed and the list shows job 2.
C17_Witness ==
    /\ mounted
    /\ jobId = 2
    /\ jobStatus = [job_id |-> 2, status |-> "running"]
    /\ \E t \in intervals : t.job = 2
    /\ listReqs = {}
    /\ Len(recentJobs) = 2
    /\ recentJobs[1].job_id = 2

\* C18: a start whose connection string is empty is rejected before any
\* network call: no start request in flight, from DataConnector, Settings or
\* Connectors, carries an empty connection string.
C18_EmptyConnRejected ==
    /\ \A r \in startReqs : r.conn # ""
    /\ \A r \in triggerReqs : r.conn # ""

\* The React state of DataConnector, which is all the render can show.
ViewState == <<formData, loading, testResult, ingestionResult, activeTab,
               jobId, jobStatus, pollingInterval, recentJobs, executionMode>>

\* C19: after a failed poll the last known snapshot is still held unchanged
\* and the state the view renders carries an indication of the failure (it
\* differs from the state before the failed poll).
C19_FailedPollIndicated ==
    [][(/\ mounted
        /\ Len(watchLog'.log) > Len(watchLog.log)
        /\ Last(watchLog'.log) = "error")
          => /\ jobStatus' = jobStatus
             /\ ViewState' # ViewState]_vars

\* C20: failures of start, View Details and the list fetch are surfaced in
\* state.  A completed start leaves a result in ingestionResult; a View
\* Details fetch that failed (the tab did not switch to results) and a list
\* fetch that failed (the list is still empty) change the state the view
\* renders.
C20_FailuresSurfaced ==
    [][/\ \A r \in startReqs \ startReqs' :
             mounted => ingestionResult' # NullResult
       /\ \A r \in statusReqs \ statusReqs' :
             (/\ mounted
              /\ r.src = "view"
              /\ activeTab # "results"
              /\ activeTab' = activeTab)
                => ViewState' # ViewState
       /\ (/\ mounted
           /\ listReqs' # listReqs
           /\ listReqs' \subseteq listReqs
           /\ recentJobs' = <<>>)
          => ViewState' # ViewState]_vars

\* C21: every start, poll, list, view and test-connection request carries
\* the token the session store holds at the moment the request is issued, as
\* a bearer credential (and no credential when the store holds none).
C21_RequestsCarryToken ==
    [][\A r \in (statusReqs' \ statusReqs) \cup (listReqs' \ listReqs)
                 \cup (startReqs' \ startReqs) \cup (testReqs' \ testReqs) :
          /\ r.auth.token = token
          /\ r.auth.Authorization = IF token = "" THEN "absent"
                                                  ELSE "Bearer"]_vars

\* C21 witness: a poll issued under the first token was answered after the
\* token had been replaced, and the list fetch it triggered went out with
\* the new token.
C21_Witness ==
    /\ token = "t0"
    /\ watchLog.log # <<>>
    /\ IsTerminal(Last(watchLog.log))
    /\ \E q \in listReqs : q.tag = "poll" /\ q.auth.token = "t0"

\* C22: a request rejected for a missing or expired credential is not
\* retried by the tracker, status polls included: once the last poll of the
\* timer was rejected as unauthorized, the timer issues no further poll that
\* again carries no valid credential.
C22_NoRetryAfterUnauthorized ==
    [][\A r \in statusReqs' \ statusReqs :
          (/\ r.src = "poll"
           /\ r.handle = watchLog.handle
           /\ watchLog.log # <<>>
           /\ Last(watchLog.log) = "unauthorized")
             => Authorized(r.auth)]_vars

\* C23: a list fetch replaces the history list in full.  After a response
\* was handed to loadRecentJobs the list is exactly the jobs sequence of the
\* body, in the body's order (the empty list when the body has no jobs
\* field); after a failed fetch it is the list held before.
C23_ListReplacedInFull ==
    delivered # NotDelivered
       => recentJobs = IF ~delivered.ok THEN delivered.prev
                       ELSE IF delivered.data.hasJobs THEN delivered.data.jobs
                       ELSE <<>>

\* C23 witness: a non-empty list was held and a response listing job 1
\* before job 2 replaced it by a different list, kept in that order.
C23_Witness ==
    /\ delivered.ok
    /\ delivered.prev # <<>>
    /\ Len(recentJobs) = 2
    /\ recentJobs[1].job_id = 1
    /\ recentJobs[2].job_id = 2
    /\ recentJobs # delivered.prev

\* C24: for a non-2xx response handleResponse throws an error whose message
\* is the body's detail if it has one, else the body's message if it has
\* one, else 'Something went wrong' (also when the body is not JSON); for a
\* 2xx response it returns the parsed body and throws nothing.
C24_HandleResponse ==
    handled # NotHandled
       => IF ResponseOk(response)
          THEN handled = Returns(response.body)
          ELSE handled =
                 IF Truthy(response.body.detail)
                 THEN Throws(response.body.detail)
                 ELSE IF Truthy(response.body.message)
                 THEN Throws(response.body.message)
                 ELSE Throws("Something went wrong")

\* C25: window.refreshDatabases is defined exactly while Layout is mounted;
\* when a start request of Settings or Connectors is answered, a success
\* with the reference defined calls loadDatabases (one more fetchDatabases
\* request, sidebar loading), a success with the reference absent changes
\* nothing of the sidebar and still reports success, and a failure reports
\* the error and never reloads.
C25_RefreshThroughGlobal ==
    [][/\ refreshDatabases <=> layout.mounted
       /\ refreshDatabases' <=> layout'.mounted
       /\ \A r \in triggerReqs \ triggerReqs' :
            LET page == IF r.page = "Settings" THEN settings' ELSE connectors'
            IN /\ page.status \in {"success", "error"}
               /\ IF page.status = "success" /\ refreshDatabases
                  THEN /\ dbReqs' = [dbReqs EXCEPT !.live = @ + 1]
                       /\ layout' = [layout EXCEPT !.loading = TRUE]
                       /\ UNCHANGED <<refreshDatabases, dbDeletes>>
                  ELSE UNCHANGED layoutVars]_vars

\* C25 witness: the sidebar had finished loading its list, and a start from
\* Settings succeeded while Layout was mounted: the sidebar is loading again
\* with one fetch in flight.
C25_Witness ==
    /\ settings.status = "success"
    /\ layout.mounted
    /\ layout.databases = "loaded"
    /\ layout.loading
    /\ dbReqs = [live |-> 1, stale |-> 0]
    /\ triggerReqs = {}

\* C26: every start-ingestion request of DataConnector in flight carries the
\* connection string verified by the latest successful connection test, and
\* a successful testResult refers to the connection string now in the form.
C26_StartCarriesVerified ==
    /\ \A r \in startReqs : r.conn = verified
    /\ testResult = "success" => verified = formData.connectionString

\* C27: in synchronous mode nothing polls.  No interval timer is live in a
\* state whose executionMode is 'sync', whatever jobId holds; a start handler
\* running in sync mode clears jobId and its response, success or failure,
\* leaves jobId as it is, so a sync start never gives jobId a job id.
C27_SyncNeverPolls ==
    [][/\ executionMode = "sync" => intervals = {}
       /\ executionMode' = "sync" => intervals' = {}
       /\ \A r \in startReqs' \ startReqs :
            r.mode = "sync" => jobId' = NoJob
       /\ \A r \in startReqs \ startReqs' :
            r.mode = "sync" => jobId' = jobId]_vars

\* C27 witness: a sync start has succeeded, a job is selected in sync mode
\* (its details were viewed), a timer had been created earlier, and no timer
\* is live.
C27_Witness ==
    /\ executionMode = "sync"
    /\ ingestionResult.message = "done"
    /\ jobId # NoJob
    /\ nextHandle > 1
    /\ intervals = {}
    /\ mounted

\* C28: while DataConnector is mounted, loading is true exactly when a
\* test-connection or start-ingestion request is in flight, and at most one
\* such request is in flight.
C28_LoadingIffRequestInFlight ==
    mounted =>
       /\ loading <=> (testReqs # {} \/ startReqs # {})
       /\ Cardinality(testReqs) + Cardinality(startReqs) <= 1

\* C28 witness: a test request was answered (the flag was reset, a result is
\* shown) and a start request is now in flight with the flag set again.
C28_Witness ==
    /\ mounted
    /\ testResult = "success"
    /\ startReqs # {}
    /\ testReqs = {}
    /\ loading

\* C29: a View Details fetch that completes either leaves jobId, jobStatus
\* and activeTab all unchanged (the fetch failed) or sets jobId to the
\* selected job, jobStatus to the snapshot fetched for that job and the tab
\* to results, all in one step (the fetch succeeded); never a part of it.
C29_ViewAllOrNothing ==
    [][\A r \in statusReqs \ statusReqs' :
          (mounted /\ r.src = "view")
             => \/ UNCHANGED <<jobId, jobStatus, activeTab>>
                \/ /\ jobId' = r.job
                   /\ jobStatus' = [job_id |-> r.job, status |-> r.status]
                   /\ activeTab' = "results"]_vars

\* C29 witness: the details of job 1 were fetched and are shown: job 1 is
\* selected with its own snapshot on the results tab.
C29_Witness ==
    /\ jobId = 1
    /\ jobStatus.job_id = 1
    /\ activeTab = "results"
    /\ statusReqs = {}
    /\ fetches > 0

\* C30: once no fetchTable request is outstanding, a table held in state
\* while a table is selected is the one fetched for the current tableId.
C30_ShownTableIsSelected ==
    (/\ tableReqs = {}
     /\ tableDetail.tableId # NoTable
     /\ tableDetail.table # NoTable)
        => tableDetail.table = tableDetail.tableId

====
